---- MODULE Spec2Model ----
(***************************************************************************)
(* Model of the IOTA Canvas art commission protocol.                       *)
(*                                                                         *)
(*   Spec        the AI marketplace server (aimarket): request_art,        *)
(*               IotaUtil.generate_address, the job table and one          *)
(*               art_generator thread per job, over a sqlite database with *)
(*               one writer at a time, a ledger of address balances and a  *)
(*               discrete clock.                                           *)
(*   SpecClient  the IOTA Canvas client: IotaCanvas.run, the refresh       *)
(*               threads it starts and the EventQueue it waits on.         *)
(***************************************************************************)
EXTENDS Integers, Sequences, FiniteSets, TLC

\* ------------------------------------------------------------------ bounds
\* number of request-art calls (each is one request with its own connection)
MaxJobs == 2
\* time.sleep(BALANCE_CHECK_INTERVAL) in clock ticks (30 s in artist.py:27)
BALANCE_CHECK_INTERVAL == 2
\* config['WAIT_PAYMENT'] in clock ticks (10 minutes in __init__.py:23)
WAIT_PAYMENT == 3

\* number of refresh threads IotaCanvas.run can start
MaxThreads == 2
\* number of EventQueue.put calls
MaxPuts == 2
\* number of EventQueue.put calls when the queue is driven on its own
MaxQueuePuts == 4
\* number of rows of the artist table behind the listing a refresh fetches
MaxArtists == 2
\* stop_flag.wait(ART_CHECK_INTERVAL) in clock ticks (30 s, iotacanvas.py:41)
ART_CHECK_INTERVAL == 2
\* MAX_CHECK_TIME in clock ticks (15 minutes, iotacanvas.py:43)
MAX_CHECK_TIME == 3

\* ------------------------------------------------------- program constants
TIME_COST == 100
DEFAULT_COST == 1000

LOW_BALANCE_AMOUNT == 100

\* SQL NULL / Python None, and a present value
NULL == <<>>
Some(v) == <<v>>

\* --------------------------------------------------------------- the data
Reqs == 1..MaxJobs
JobIds == 1..MaxJobs
NoConn == 0

\* the artist table: id -> (average_time, surcharge); id 2 has no row
ArtistRows == (1 :> [average_time |-> Some(9), surcharge |-> 100])
AiIds == {1, 2}

\* what a payment to an address can add to its balance
PayAmounts == {500}
MaxBalance == 1000

\* the file name the artist's run() returns
Filenames == {"art.png"}

NoRow == [present |-> FALSE]

\* client: an IotaCanvasEvent is [name, n], n the number of the put that made
\* it; the loop's first event is IotaCanvasEvent("NONE")
Threads == 1..MaxThreads
NoneEvent == [name |-> "NONE", n |-> 0]
\* the value True that the stop flag's callback puts on the notifier and
\* that get_and_wait_on_event returns for a set flag
TrueValue == [name |-> "True", n |-> 0]
\* the default priority of EventQueue.put, the one every caller uses
DefaultPriority == 100
\* the priorities a caller of EventQueue.put may pass
Priorities == {50, DefaultPriority}

VARIABLES
    \* server ---------------------------------------------------------
    iota_addr_index,  \* iota.addr_index as committed in the database
    dbWriter,         \* the connection holding sqlite's write lock, or NoConn
    txAddrIndex,      \* iota.addr_index inside the writer's open transaction
    req,              \* request_art handlers: [pc, aiid, addr_index, job_id]
    job,              \* the job table: id -> row or NoRow
    nextJobId,        \* next value of job.id
    watcher,          \* art_generator threads, by job id
    ledger,           \* balance of the address of each index
    hist,             \* history, by job id: plugin runs, writes, times
    \* client ---------------------------------------------------------
    stop_flag,        \* the threading.Event shared by every component
    is_callback,      \* stop_flag.set/clear have been replaced (synchro.py)
    queue,            \* EventQueue._queue: the heap of PrioritizedItems
    notifier,         \* EventQueue._notifier: a FIFO queue
    nput,             \* number of EventQueue.put calls so far
    main,             \* IotaCanvas.run: [pc, event]
    is_refreshing,    \* IotaCanvas._is_refreshing
    cooldown,         \* _last_refresh_attempt + REFRESH_COOLDOWN > now
    settings,         \* the settings the loop and the refresh use
    thread,           \* the refresh threads: slot -> pc
    chist,            \* history of the current get_and_wait_on_event call
    \* one run of _refresh_artwork -----------------------------------
    refresh,          \* its position, locals, and what it has done so far
    \* the artists of the marketplace -------------------------------
    artist_table,     \* the artist table and the last /artist-list answer
    \* the client's IotaUtil ----------------------------------------
    wallet            \* iota settings, _thread_lock and the send_iota calls

svars == <<iota_addr_index, dbWriter, txAddrIndex, req, job, nextJobId,
           watcher, ledger, hist>>
cvars == <<stop_flag, is_callback, queue, notifier, nput, main,
           is_refreshing, cooldown, settings, thread, chist>>
rvars == <<refresh>>
avars == <<artist_table>>
wvars == <<wallet>>
vars == <<svars, cvars, rvars, avars, wvars>>

\* ------------------------------------------------------------- calc_cost
\* the cost of an artist that has no average time, for every artist
calc_cost_default(average_time, surcharge) == surcharge + DEFAULT_COST

calc_cost(average_time, surcharge) ==
    LET time_cost == IF average_time = NULL
                     THEN DEFAULT_COST
                     ELSE average_time[1] * TIME_COST
    IN  surcharge + time_cost

\* ---------------------------------------------------------------- get_job
\* get_job without its comparison of key with access_key
get_job_any_key(jobid, key) ==
    IF jobid \notin JobIds \/ ~job[jobid].present
    THEN [code |-> 404]
    ELSE [code |-> 200,
          completed |-> job[jobid].completed,
          filename |-> job[jobid].filename]

\* the answer of get_job(jobid, key): 404, 403 or the row it selects
get_job(jobid, key) ==
    IF jobid \notin JobIds \/ ~job[jobid].present
    THEN [code |-> 404]
    ELSE IF key # job[jobid].access_key
         THEN [code |-> 403]
         ELSE [code |-> 200,
               completed |-> job[jobid].completed,
               filename |-> job[jobid].filename]

\* --------------------------------------------------------- retrieve_status
\* the test of completed inverted
retrieve_status_inverted(jobid, key) ==
    LET j == get_job(jobid, key)
    IN  IF j.code # 200
        THEN j
        ELSE IF j.completed # NULL
             THEN [code |-> 409, status |-> "in_progress"]
             ELSE [code |-> 200, status |-> "completed"]

\* the response of POST /<jobid>/status with body {key}: the abort of
\* get_job, 409 with status in_progress or 200 with status completed
retrieve_status(jobid, key) ==
    LET j == get_job(jobid, key)
    IN  IF j.code # 200
        THEN j
        ELSE IF j.completed = NULL
             THEN [code |-> 409, status |-> "in_progress"]
             ELSE [code |-> 200, status |-> "completed"]

\* ------------------------------------------------------------ retrieve_art
\* the file served without the test of completed
retrieve_art_unchecked(jobid, key) ==
    LET j == get_job(jobid, key)
    IN  IF j.code # 200
        THEN j
        ELSE [code |-> 200, file |-> j.filename]

\* the response of POST /<jobid>/retrieve-art with body {key}: the abort of
\* get_job, abort(409), or the file job['filename'] of ART_DIR
retrieve_art(jobid, key) ==
    LET j == get_job(jobid, key)
    IN  IF j.code # 200
        THEN j
        ELSE IF j.completed = NULL
             THEN [code |-> 409]
             ELSE [code |-> 200, file |-> j.filename]

\* uuid.uuid4().hex of the n-th request: fresh for every request
uuid4(r) == r

\* job.id of a new row: never one used before
lastrowid == nextJobId

IdleWatcher ==
    [pc |-> "none", addr_index |-> 0, required_balance |-> 0,
     balance |-> 0, elapsed |-> 0, wake |-> 0, filename |-> NULL]

ServerInit ==
    /\ iota_addr_index = 0
    /\ dbWriter = NoConn
    /\ txAddrIndex = 0
    /\ req = [r \in Reqs |->
                [pc |-> "idle", aiid |-> 0, addr_index |-> 0, job_id |-> 0]]
    /\ job = [j \in JobIds |-> NoRow]
    /\ nextJobId = 1
    /\ watcher = [j \in JobIds |-> IdleWatcher]
    /\ ledger = [i \in 0..(MaxJobs - 1) |-> 0]
    /\ hist = [j \in JobIds |->
                 [plugin_runs |-> 0, writes |-> 0, writer |-> 0,
                  deleted_at |-> -1, query_failed |-> FALSE,
                  paid_at_run |-> TRUE]]

\* the client as main() builds it, on a fresh install (no artwork, no
\* refresh yet), with the user's art_refresh_enabled setting on or off
ClientInit ==
    /\ stop_flag = FALSE
    /\ is_callback = FALSE
    /\ queue = <<>>
    /\ notifier = <<>>
    /\ nput = 0
    /\ main = [pc |-> "loop", event |-> NoneEvent]
    /\ is_refreshing = FALSE
    /\ cooldown = FALSE
    /\ settings \in {[art_refresh_enabled |-> e, last_refresh_time |-> NULL,
                      current_artwork |-> NULL, num_artworks |-> 0]
                     : e \in BOOLEAN}
    /\ thread = [t \in Threads |-> "unused"]
    /\ chist = [posted |-> FALSE, result |-> "none", noop |-> FALSE]

\* no run of _refresh_artwork is followed step by step
RefreshIdle ==
    [pc |-> "idle", table |-> <<>>, balance |-> 0, artist_list |-> NULL,
     artist |-> NULL, art_request |-> NULL, required_balance |-> NULL,
     paid |-> NULL, status |-> "unknown", elapsed |-> 0, steps |-> <<>>,
     failure |-> "none"]

\* a marketplace with no artist registered and no listing answered yet
NoArtists == [rows |-> <<>>, listing |-> NULL]

\* the greatest number of send_iota calls followed
MaxSends == 3

Callers == {1, 2}

\* no call of send_iota in progress
IdleCall == [pc |-> "idle", index |-> 0, stop_index |-> 0, result |-> "none",
             alone |-> TRUE, before |-> 0, after |-> 0, receive_before |-> 0]

\* the settings after initialize_app: generate_address has handed out
\* index 0 for the first receive address; holders counts, by index, the
\* calls that were handed the index and did not roll it back
WalletIdle ==
    [addr_index |-> 1, receive_address |-> 0, lock |-> 0, sends |-> 0,
     call |-> [c \in Callers |-> IdleCall],
     holders |-> [i \in 0..(MaxSends + 1) |-> IF i = 0 THEN 1 ELSE 0]]

Init ==
    /\ ServerInit
    /\ ClientInit
    /\ settings.art_refresh_enabled
    /\ refresh = RefreshIdle
    /\ artist_table = NoArtists
    /\ wallet = WalletIdle

\* ------------------------------------------- IotaUtil.generate_address
\* a connection in autocommit mode: the UPDATE is its own transaction
AutocommitAfterUpdate(conn) == NoConn

\* sqlite issues a BEGIN on UPDATE: the connection that ran it is the
\* database's one writer until its commit
WriterAfterUpdate(conn) == conn

\* UPDATE iota SET addr_index = addr_index + 1, the first statement of
\* request_art(aiid); it waits while another connection is the writer.
\* Requests are numbered in the order they arrive.
GenerateAddressUpdate(r, aiid) ==
    /\ req[r].pc = "idle"
    /\ \A q \in Reqs : q < r => req[q].pc # "idle"
    /\ dbWriter = NoConn
    /\ dbWriter' = WriterAfterUpdate(r)
    /\ IF dbWriter' = r
       THEN /\ txAddrIndex' = iota_addr_index + 1
            /\ UNCHANGED iota_addr_index
       ELSE /\ iota_addr_index' = iota_addr_index + 1
            /\ UNCHANGED txAddrIndex
    /\ req' = [req EXCEPT ![r].pc = "ga_select", ![r].aiid = aiid]
    /\ UNCHANGED <<job, nextJobId, watcher, ledger, hist>>
    /\ UNCHANGED <<cvars, rvars, avars, wvars>>

\* the counter as fetched, without the subtraction
FetchedIndex(seen) == seen

\* fetchone()['addr_index'] - 1: the value the counter had before the UPDATE
ReturnedIndex(seen) == seen - 1

\* SELECT addr_index FROM iota ... - 1: a writer reads its own transaction
GenerateAddressSelect(r) ==
    /\ req[r].pc = "ga_select"
    /\ LET seen == IF dbWriter = r THEN txAddrIndex ELSE iota_addr_index
       IN  req' = [req EXCEPT ![r].pc = "ga_commit",
                              ![r].addr_index = ReturnedIndex(seen)]
    /\ UNCHANGED <<iota_addr_index, dbWriter, txAddrIndex, job, nextJobId,
                   watcher, ledger, hist>>
    /\ UNCHANGED <<cvars, rvars, avars, wvars>>

\* a transaction left open until after the address derivation
WriterKeptAfterCommit(conn) == conn

\* db.commit() ends the transaction: the database has no writer
WriterAfterCommit(conn) == NoConn

\* db.commit()
GenerateAddressCommit(r) ==
    /\ req[r].pc = "ga_commit"
    /\ IF dbWriter = r
       THEN /\ iota_addr_index' = txAddrIndex
            /\ dbWriter' = WriterAfterCommit(r)
       ELSE UNCHANGED <<iota_addr_index, dbWriter>>
    /\ req' = [req EXCEPT ![r].pc = "ga_derive"]
    /\ UNCHANGED <<txAddrIndex, job, nextJobId, watcher, ledger, hist>>
    /\ UNCHANGED <<cvars, rvars, avars, wvars>>

\* iotaapi.get_new_addresses(index=addr_index): an address, or the node
\* cannot be reached and the request ends with the exception
GenerateAddressDerive(r, ok) ==
    /\ req[r].pc = "ga_derive"
    /\ req' = [req EXCEPT ![r].pc = IF ok THEN "insert" ELSE "failed"]
    /\ UNCHANGED <<iota_addr_index, dbWriter, txAddrIndex, job, nextJobId,
                   watcher, ledger, hist>>
    /\ UNCHANGED <<cvars, rvars, avars, wvars>>

\* ------------------------------------------------------------ request_art
\* the counter read again at the INSERT instead of the index returned
RereadAddrIndex(r) == iota_addr_index - 1

\* the addr_index request_art stores in the job row
InsertedAddrIndex(r) == req[r].addr_index

\* INSERT INTO job (access_key, addr_index, ai_id) ... ; db.commit();
\* threading.Thread(target=art_generator, args=(job_id, ...)).start() and
\* the 202 response
InsertJob(r) ==
    /\ req[r].pc = "insert"
    /\ dbWriter = NoConn
    /\ nextJobId \in JobIds
    /\ job' = [job EXCEPT ![lastrowid] =
                 [present |-> TRUE, access_key |-> uuid4(r),
                  addr_index |-> InsertedAddrIndex(r), ai_id |-> req[r].aiid,
                  completed |-> NULL, filename |-> NULL]]
    /\ nextJobId' = nextJobId + 1
    /\ watcher' = [watcher EXCEPT ![lastrowid].pc = "init"]
    /\ req' = [req EXCEPT ![r].pc = "responded", ![r].job_id = lastrowid]
    /\ UNCHANGED <<iota_addr_index, dbWriter, txAddrIndex, ledger, hist>>
    /\ UNCHANGED <<cvars, rvars, avars, wvars>>

\* ---------------------------------------------------------- art_generator
\* info = SELECT addr_index, code, surcharge, average_time
\*          FROM job j JOIN artist ai ON j.ai_id = ai.id WHERE j.id = ?
\* NULL when the join has no row
JobInfo(j) ==
    IF job[j].present /\ job[j].ai_id \in DOMAIN ArtistRows
    THEN Some([addr_index |-> job[j].addr_index,
               average_time |-> ArtistRows[job[j].ai_id].average_time,
               surcharge |-> ArtistRows[job[j].ai_id].surcharge])
    ELSE NULL

\* the deadline tested for the end of the next sleep
KeepPollingUntilNextSleep(w) ==
    /\ w.balance < w.required_balance
    /\ w.elapsed + BALANCE_CHECK_INTERVAL < WAIT_PAYMENT

\* while balance < required_balance
\*         and datetime.datetime.now() < start_time + wait_time
KeepPolling(w) ==
    /\ w.balance < w.required_balance
    /\ w.elapsed < WAIT_PAYMENT

\* the loop test of a watcher with locals w: a true test enters
\* time.sleep(BALANCE_CHECK_INTERVAL), a false one leaves the loop
LoopTest(w) ==
    IF KeepPolling(w)
    THEN [w EXCEPT !.pc = "sleep",
                   !.wake = w.elapsed + BALANCE_CHECK_INTERVAL]
    ELSE [w EXCEPT !.pc = "decide"]

\* lines 304-327: the thread's connection, info, required_balance,
\* balance = 0, start_time and the first loop test;
\* info['addr_index'] raises TypeError on None
WatcherInit(j) ==
    /\ watcher[j].pc = "init"
    /\ IF JobInfo(j) = NULL
       THEN watcher' = [watcher EXCEPT ![j].pc = "crashed"]
       ELSE LET info == JobInfo(j)[1]
            IN  watcher' = [watcher EXCEPT ![j] = LoopTest(
                    [@ EXCEPT
                       !.addr_index = info.addr_index,
                       !.required_balance =
                           calc_cost(info.average_time, info.surcharge),
                       !.balance = 0,
                       !.elapsed = 0])]
    /\ UNCHANGED <<iota_addr_index, dbWriter, txAddrIndex, req, job,
                   nextJobId, ledger, hist>>
    /\ UNCHANGED <<cvars, rvars, avars, wvars>>

\* IotaUtil.get_balance(index): the balance of that one address
get_balance(index) == ledger[index]

\* the sleep ends; balance = iota.get_balance(addr_index) and the next loop
\* test, or the node cannot be reached and the exception ends the thread
WatcherPoll(j, ok) ==
    /\ watcher[j].pc = "sleep"
    /\ watcher[j].elapsed = watcher[j].wake
    /\ IF ok
       THEN /\ watcher' = [watcher EXCEPT ![j] = LoopTest(
                   [@ EXCEPT !.balance = get_balance(watcher[j].addr_index)])]
            /\ UNCHANGED hist
       ELSE /\ watcher' = [watcher EXCEPT ![j].pc = "crashed"]
            /\ hist' = [hist EXCEPT ![j].query_failed = TRUE]
    /\ UNCHANGED <<iota_addr_index, dbWriter, txAddrIndex, req, job,
                   nextJobId, ledger>>
    /\ UNCHANGED <<cvars, rvars, avars, wvars>>

\* the deadline decides, whatever the balance
TimedOutByClock(w) == w.elapsed >= WAIT_PAYMENT

\* <= for <
TimedOutOrExact(w) == w.balance <= w.required_balance

\* if balance < required_balance: the job timed out
TimedOut(w) == w.balance < w.required_balance

\* a DELETE with no WHERE clause
DeleteEveryJob(j) == [k \in JobIds |-> NoRow]

\* the rows 'DELETE FROM job WHERE id = ?' leaves
DeleteJob(j) == [job EXCEPT ![j] = NoRow]

\* the branch after the loop: DELETE and commit, or go on to the artist
WatcherDecide(j) ==
    /\ watcher[j].pc = "decide"
    /\ IF TimedOut(watcher[j])
       THEN /\ dbWriter = NoConn
            /\ job' = DeleteJob(j)
            /\ watcher' = [watcher EXCEPT ![j].pc = "done"]
            /\ hist' = [hist EXCEPT ![j].writes = @ + 1,
                                    ![j].writer = j,
                                    ![j].deleted_at = watcher[j].elapsed]
       ELSE /\ watcher' = [watcher EXCEPT ![j].pc = "generate"]
            /\ UNCHANGED <<job, hist>>
    /\ UNCHANGED <<iota_addr_index, dbWriter, txAddrIndex, req, nextJobId,
                   ledger>>
    /\ UNCHANGED <<cvars, rvars, avars, wvars>>

\* filename = code_mod.run(store_path): a file name, or the artist raises
WatcherRun(j, ok, f) ==
    /\ watcher[j].pc = "generate"
    /\ watcher' = [watcher EXCEPT
            ![j].pc = IF ok THEN "finalize" ELSE "crashed",
            ![j].filename = IF ok THEN Some(f) ELSE NULL]
    /\ hist' = [hist EXCEPT
            ![j].plugin_runs = @ + 1,
            ![j].paid_at_run =
                watcher[j].balance >= watcher[j].required_balance]
    /\ UNCHANGED <<iota_addr_index, dbWriter, txAddrIndex, req, job,
                   nextJobId, ledger>>
    /\ UNCHANGED <<cvars, rvars, avars, wvars>>

\* an UPDATE that sets completed and leaves filename for a later statement
FinalizeCompletedOnly(j, completed, filename) ==
    IF job[j].present
    THEN [job EXCEPT ![j].completed = completed]
    ELSE job

\* the rows 'UPDATE job SET completed = ?, filename = ? WHERE id = ?' leaves
FinalizeJob(j, completed, filename) ==
    IF job[j].present
    THEN [job EXCEPT ![j].completed = completed, ![j].filename = filename]
    ELSE job

\* the UPDATE and db.commit()
WatcherFinalize(j) ==
    /\ watcher[j].pc = "finalize"
    /\ dbWriter = NoConn
    /\ job' = FinalizeJob(j, Some(watcher[j].elapsed), watcher[j].filename)
    /\ watcher' = [watcher EXCEPT ![j].pc = "done"]
    /\ hist' = [hist EXCEPT ![j].writes = @ + 1, ![j].writer = j]
    /\ UNCHANGED <<iota_addr_index, dbWriter, txAddrIndex, req, nextJobId,
                   ledger>>
    /\ UNCHANGED <<cvars, rvars, avars, wvars>>

\* ------------------------------------------------------ the environment
\* a transfer of amt to the address of index i arrives on the ledger; the
\* balance of an address is read by the watcher of its job alone
\* (get_balance), so the transfers followed are those to the address of a
\* job whose watcher has still to poll
Pay(i, amt) ==
    /\ \E j \in JobIds :
          /\ watcher[j].pc \in {"init", "sleep"}
          /\ job[j].addr_index = i
    /\ ledger[i] + amt <= MaxBalance
    /\ ledger' = [ledger EXCEPT ![i] = @ + amt]
    /\ UNCHANGED <<iota_addr_index, dbWriter, txAddrIndex, req, job,
                   nextJobId, watcher, hist>>
    /\ UNCHANGED <<cvars, rvars, avars, wvars>>

\* a watcher at the branch after the loop or at the end of its sleep acts
\* before the clock moves on (its statements take no time)
Busy(w) ==
    \/ w.pc = "decide"
    \/ w.pc = "sleep" /\ w.wake <= w.elapsed

\* the time until the first of the sleeps in progress ends
RECURSIVE MinOf(_)
MinOf(S) ==
    LET x == CHOOSE y \in S : TRUE
    IN  IF S = {x} THEN x
        ELSE LET m == MinOf(S \ {x}) IN IF x < m THEN x ELSE m

NextWake ==
    MinOf({watcher[j].wake - watcher[j].elapsed :
              j \in {k \in JobIds : watcher[k].pc = "sleep"}})

\* the clock moves on to the moment the next sleep ends: elapsed is
\* datetime.datetime.now() - start_time of each watcher in its polling loop
Tick ==
    /\ \E j \in JobIds : watcher[j].pc = "sleep"
    /\ \A j \in JobIds : ~Busy(watcher[j])
    /\ watcher' = [j \in JobIds |->
                     IF watcher[j].pc = "sleep"
                     THEN [watcher[j] EXCEPT !.elapsed = @ + NextWake]
                     ELSE watcher[j]]
    /\ UNCHANGED <<iota_addr_index, dbWriter, txAddrIndex, req, job,
                   nextJobId, ledger, hist>>
    /\ UNCHANGED <<cvars, rvars, avars, wvars>>

Next ==
    \/ \E r \in Reqs, aiid \in AiIds : GenerateAddressUpdate(r, aiid)
    \/ \E r \in Reqs : GenerateAddressSelect(r)
    \/ \E r \in Reqs : GenerateAddressCommit(r)
    \/ \E r \in Reqs, ok \in BOOLEAN : GenerateAddressDerive(r, ok)
    \/ \E r \in Reqs : InsertJob(r)
    \/ \E j \in JobIds : WatcherInit(j)
    \/ \E j \in JobIds, ok \in BOOLEAN : WatcherPoll(j, ok)
    \/ \E j \in JobIds : WatcherDecide(j)
    \/ \E j \in JobIds, ok \in BOOLEAN, f \in Filenames : WatcherRun(j, ok, f)
    \/ \E j \in JobIds : WatcherFinalize(j)
    \/ \E i \in DOMAIN ledger, amt \in PayAmounts : Pay(i, amt)
    \/ Tick

Spec == Init /\ [][Next]_vars

\* ============================================================== client
\* ------------------------------------------------------------- EventQueue
\* heapq._siftdown(heap, startpos, pos) as queue.PriorityQueue._put runs it
\* after heap.append(item): PrioritizedItem.__lt__ compares priorities
RECURSIVE siftdown(_, _, _)
siftdown(heap, pos, newitem) ==
    IF pos > 1
    THEN LET parentpos == pos \div 2
             parent == heap[parentpos]
         IN  IF newitem.priority < parent.priority
             THEN siftdown([heap EXCEPT ![pos] = parent], parentpos, newitem)
             ELSE [heap EXCEPT ![pos] = newitem]
    ELSE [heap EXCEPT ![pos] = newitem]

heappush(heap, item) ==
    siftdown(Append(heap, item), Len(heap) + 1, item)

\* heapq._siftup(heap, pos) up to its call of _siftdown: the smaller child
\* moves up until a leaf is reached (the right child when the left one is
\* not smaller); the heap and the leaf's position
RECURSIVE siftup_loop(_, _)
siftup_loop(heap, pos) ==
    LET childpos == 2 * pos
        rightpos == childpos + 1
    IN  IF childpos <= Len(heap)
        THEN LET c == IF /\ rightpos <= Len(heap)
                         /\ ~(heap[childpos].priority < heap[rightpos].priority)
                      THEN rightpos
                      ELSE childpos
             IN  siftup_loop([heap EXCEPT ![pos] = heap[c]], c)
        ELSE <<heap, pos>>

siftup(heap, pos) ==
    LET newitem == heap[pos]
        r == siftup_loop(heap, pos)
    IN  siftdown(r[1], r[2], newitem)

\* heapq.heappop(heap) as queue.PriorityQueue._get runs it: the item
\* returned and the heap left
heappop(heap) ==
    LET lastelt == heap[Len(heap)]
        rest == SubSeq(heap, 1, Len(heap) - 1)
    IN  IF rest # <<>>
        THEN [item |-> rest[1], heap |-> siftup([rest EXCEPT ![1] = lastelt], 1)]
        ELSE [item |-> lastelt, heap |-> rest]

\* EventQueue._cb_put(item): self._notifier.put(item)
cb_put(q, item) == Append(q, item)

\* chist.posted: the get_and_wait_on_event call in progress, if any, has
\* had something posted to the notifier since its event.is_set() check;
\* chist.result: how the last call ended; chist.noop: the REFRESH_ARTWORK
\* event the loop holds came off the notifier while _is_refreshing was set,
\* and in every turn since the loop has started nothing for it
Posted ==
    IF main.pc \in {"gw_clear", "gw_block"}
    THEN [chist EXCEPT !.posted = TRUE]
    ELSE chist

\* EventQueue.put(event_name): the item goes on the priority queue and on
\* the notifier queue (the model follows the first MaxPuts calls)
put(event_name) ==
    LET item == [name |-> event_name, n |-> nput + 1]
    IN  /\ nput < MaxPuts
        /\ queue' = heappush(queue,
                        [priority |-> DefaultPriority, data |-> item])
        /\ notifier' = cb_put(notifier, item)
        /\ nput' = nput + 1
        /\ chist' = Posted

\* EventQueue.put(event_name, priority=priority) called on the queue by any
\* caller (the first MaxQueuePuts calls)
EventQueuePut(event_name, priority) ==
    LET item == [name |-> event_name, n |-> nput + 1]
    IN  /\ nput < MaxQueuePuts
        /\ queue' = heappush(queue, [priority |-> priority, data |-> item])
        /\ notifier' = cb_put(notifier, item)
        /\ nput' = nput + 1
        /\ UNCHANGED <<stop_flag, is_callback, main, is_refreshing, cooldown,
                       settings, thread, chist>>
        /\ UNCHANGED <<svars, rvars, avars, wvars>>

\* event = EventQueue.get(): item = self._queue.get(); return item.data. It
\* blocks while the priority queue is empty.
EventQueueGet ==
    /\ Len(queue) > 0
    /\ queue' = heappop(queue).heap
    /\ main' = [main EXCEPT !.event = heappop(queue).item.data]
    /\ UNCHANGED <<stop_flag, is_callback, notifier, nput, is_refreshing,
                   cooldown, settings, thread, chist>>
    /\ UNCHANGED <<svars, rvars, avars, wvars>>

\* ------------------------------------------------------------ stop_flag
\* stop_flag.set() looked up when called: cb_set once the flag has been
\* converted (event._set() and event.cb()), threading.Event.set before
StopFlagSet ==
    /\ stop_flag' = TRUE
    /\ notifier' = IF is_callback THEN cb_put(notifier, TrueValue)
                   ELSE notifier
    /\ chist' = IF is_callback THEN Posted ELSE chist

\* display.Display._stop (the <<Stop>> event, Escape): self.stop_flag.set()
DisplayStop ==
    /\ ~stop_flag
    /\ StopFlagSet
    /\ UNCHANGED <<queue, nput, main, is_refreshing, cooldown, settings,
                   thread, is_callback>>
    /\ UNCHANGED <<svars, rvars, avars, wvars>>

\* cherrypy publishes 'stop' to the subscriber start_webapp registered:
\* stop_flag.set as bound before any conversion, which runs no callback
CherrypyStop ==
    /\ ~stop_flag
    /\ stop_flag' = TRUE
    /\ UNCHANGED <<chist, notifier, queue, nput, main, is_refreshing, cooldown,
                   settings, thread, is_callback>>
    /\ UNCHANGED <<svars, rvars, avars, wvars>>

\* the skip button: self._event_q.put("REFRESH_ARTWORK")
PressSkip ==
    /\ put("REFRESH_ARTWORK")
    /\ UNCHANGED <<stop_flag, is_callback, main, is_refreshing, cooldown,
                   settings, thread>>
    /\ UNCHANGED <<svars, rvars, avars, wvars>>

\* ---------------------------------------------------------- IotaCanvas
\* is_refresh_time(); due is (last_refresh + refresh_interval) <= now
is_refresh_time(due) ==
    IF ~settings.art_refresh_enabled
    THEN FALSE
    ELSE IF cooldown
         THEN FALSE
         ELSE IF settings.last_refresh_time = NULL
              THEN TRUE
              ELSE settings.num_artworks = 0 \/ due

\* REFRESH_COOLDOWN has passed since _last_refresh_attempt
CooldownEnds ==
    /\ cooldown
    /\ cooldown' = FALSE
    /\ UNCHANGED <<stop_flag, is_callback, queue, notifier, nput, main,
                   is_refreshing, settings, thread, chist>>
    /\ UNCHANGED <<svars, rvars, avars, wvars>>

\* the loop starts a refresh thread
StartsRefresh(due) ==
    /\ is_refresh_time(due) \/ main.event.name = "REFRESH_ARTWORK"
    /\ ~is_refreshing

\* one turn of the loop of run, up to its call of get_and_wait_on_event:
\* while not self.stop_flag.is_set(), a set flag ending run through its
\* finally (self.stop_flag.set()); then lines 205-224 for the event held:
\* start a refresh thread if one is wanted and none is marked running, and
\* act on the event. event.name of the value True raises AttributeError,
\* which ends run through its finally too.
MainLoop(due) ==
    /\ main.pc = "loop"
    /\ IF stop_flag \/ main.event = TrueValue
       THEN /\ main' = [main EXCEPT !.pc = "exited"]
            /\ StopFlagSet
            /\ UNCHANGED thread
       ELSE /\ main' = [main EXCEPT !.pc = "gw_is_set"]
            /\ chist' = [posted |-> FALSE, result |-> "none",
                         noop |-> /\ main.event.name = "REFRESH_ARTWORK"
                                  /\ is_refreshing
                                  /\ chist.result = "item" \/ chist.noop]
            /\ IF StartsRefresh(due)
               THEN /\ \E t \in Threads : thread[t] = "unused"
                    /\ LET t == CHOOSE u \in Threads :
                                   /\ thread[u] = "unused"
                                   /\ \A v \in Threads :
                                         thread[v] = "unused" => u <= v
                       IN  thread' = [thread EXCEPT ![t] = "started"]
               ELSE UNCHANGED thread
            /\ UNCHANGED <<stop_flag, notifier>>
    /\ UNCHANGED <<is_callback, queue, nput, is_refreshing, cooldown,
                   settings>>
    /\ UNCHANGED <<svars, rvars, avars, wvars>>

\* get_and_wait_on_event: convert_to_callback_event(event, ...) and
\* if event.is_set(): return True
GetAndWaitIsSet ==
    /\ main.pc = "gw_is_set"
    /\ is_callback' = TRUE
    /\ IF stop_flag
       THEN /\ main' = [pc |-> "loop", event |-> TrueValue]
            /\ chist' = [chist EXCEPT !.result = "stop"]
       ELSE /\ main' = [main EXCEPT !.pc = "gw_clear"]
            /\ UNCHANGED chist
    /\ UNCHANGED <<stop_flag, queue, notifier, nput, is_refreshing,
                   cooldown, settings, thread>>
    /\ UNCHANGED <<svars, rvars, avars, wvars>>

\* _clear_notifier: while self._notifier.qsize() != 0: get_nowait()
ClearNotifier ==
    /\ main.pc = "gw_clear"
    /\ IF Len(notifier) # 0
       THEN /\ notifier' = Tail(notifier)
            /\ UNCHANGED main
       ELSE /\ main' = [main EXCEPT !.pc = "gw_block"]
            /\ UNCHANGED notifier
    /\ UNCHANGED <<stop_flag, is_callback, queue, nput, is_refreshing,
                   cooldown, settings, thread, chist>>
    /\ UNCHANGED <<svars, rvars, avars, wvars>>

\* return self._notifier.get(timeout=timeout), an item arrived
NotifierGet ==
    /\ main.pc = "gw_block"
    /\ Len(notifier) # 0
    /\ main' = [pc |-> "loop", event |-> Head(notifier)]
    /\ notifier' = Tail(notifier)
    /\ chist' = [chist EXCEPT !.result = "item"]
    /\ UNCHANGED <<stop_flag, is_callback, queue, nput, is_refreshing,
                   cooldown, settings, thread>>
    /\ UNCHANGED <<svars, rvars, avars, wvars>>

\* self._notifier.get(timeout=timeout) blocked for the whole timeout
\* (CHECK_INTERVAL, 5 minutes) on an empty notifier: queue.Empty, which run
\* catches; event keeps its value. A refresh thread does not stay that long
\* before a statement of _refresh_artwork_caller, so a refresh that began
\* did so no later than the start of this wait, and REFRESH_COOLDOWN
\* (4 minutes) has passed since when the wait ends.
NotifierTimeout ==
    /\ main.pc = "gw_block"
    /\ Len(notifier) = 0
    /\ \A t \in Threads :
          thread[t] \notin {"started", "flagged", "finally", "finally_raising"}
    /\ main' = [main EXCEPT !.pc = "loop"]
    /\ chist' = [chist EXCEPT !.result = "timeout"]
    /\ cooldown' = FALSE
    /\ UNCHANGED <<stop_flag, is_callback, queue, notifier, nput,
                   is_refreshing, settings, thread>>
    /\ UNCHANGED <<svars, rvars, avars, wvars>>

\* ------------------------------------------------ _refresh_artwork_caller
\* self._is_refreshing = True, the thread's first statement
RefreshSetFlag(t) ==
    /\ thread[t] = "started"
    /\ is_refreshing' = TRUE
    /\ thread' = [thread EXCEPT ![t] = "flagged"]
    /\ UNCHANGED <<stop_flag, is_callback, queue, notifier, nput, main,
                   cooldown, settings, chist>>
    /\ UNCHANGED <<svars, rvars, avars, wvars>>

\* _refresh_artwork begins: self._last_refresh_attempt = now
RefreshBegin(t) ==
    /\ thread[t] = "flagged"
    /\ cooldown' = TRUE
    /\ thread' = [thread EXCEPT ![t] = "refreshing"]
    /\ UNCHANGED <<stop_flag, is_callback, queue, notifier, nput, main,
                   is_refreshing, settings, chist>>
    /\ UNCHANGED <<svars, rvars, avars, wvars>>

\* _refresh_artwork ends: with one event put (LOW_BALANCE, ERROR, or
\* ARTWORK_UPDATED after the settings were saved), silently after
\* MAX_CHECK_TIME or a set stop flag, or by an exception it does not catch
RefreshOutcomes == {"LOW_BALANCE", "ERROR", "ARTWORK_UPDATED", "silent",
                    "exception"}

\* a caller without try ... finally: the exception ends the thread at once
EndsWithoutFinally(outcome) ==
    IF outcome = "exception" THEN "died" ELSE "finally"

\* _refresh_artwork_caller after _refresh_artwork: the finally clause, entered
\* by the return or by the exception on its way out
AfterRefreshArtwork(outcome) ==
    IF outcome = "exception" THEN "finally_raising" ELSE "finally"

\* the file's name, uuid.uuid4().hex[:8] + '.' + ext, is a fresh one: it is
\* written as the number of the put that announces the file
RefreshEnd(t, outcome) ==
    /\ thread[t] = "refreshing"
    /\ thread' = [thread EXCEPT ![t] = AfterRefreshArtwork(outcome)]
    /\ IF outcome \in {"LOW_BALANCE", "ERROR", "ARTWORK_UPDATED"}
       THEN put(outcome)
       ELSE UNCHANGED <<queue, notifier, nput, chist>>
    /\ IF outcome = "ARTWORK_UPDATED"
       THEN settings' = [settings EXCEPT
                !.last_refresh_time = Some("now"),
                !.current_artwork = Some(nput + 1),
                !.num_artworks = 1]
       ELSE UNCHANGED settings
    /\ UNCHANGED <<stop_flag, is_callback, main, is_refreshing, cooldown>>
    /\ UNCHANGED <<svars, rvars, avars, wvars>>

\* finally: self._is_refreshing = False; the thread then ends, by the
\* exception if one brought it here
RefreshFinally(t) ==
    /\ thread[t] \in {"finally", "finally_raising"}
    /\ is_refreshing' = FALSE
    /\ thread' = [thread EXCEPT
           ![t] = IF thread[t] = "finally" THEN "finished" ELSE "died"]
    /\ UNCHANGED <<stop_flag, is_callback, queue, notifier, nput, main,
                   cooldown, settings, chist>>
    /\ UNCHANGED <<svars, rvars, avars, wvars>>

NextClient ==
    \/ DisplayStop
    \/ CherrypyStop
    \/ PressSkip
    \/ CooldownEnds
    \/ \E due \in BOOLEAN : MainLoop(due)
    \/ GetAndWaitIsSet
    \/ ClearNotifier
    \/ NotifierGet
    \/ NotifierTimeout
    \/ \E t \in Threads : RefreshSetFlag(t)
    \/ \E t \in Threads : RefreshBegin(t)
    \/ \E t \in Threads, o \in RefreshOutcomes : RefreshEnd(t, o)
    \/ \E t \in Threads : RefreshFinally(t)

InitClient ==
    /\ ServerInit
    /\ ClientInit
    /\ refresh = RefreshIdle
    /\ artist_table = NoArtists
    /\ wallet = WalletIdle

SpecClient == InitClient /\ [][NextClient]_vars

\* the EventQueue on its own, under any sequence of puts and gets
NextQueue ==
    \/ \E p \in Priorities : EventQueuePut("REFRESH_ARTWORK", p)
    \/ EventQueueGet

SpecQueue == InitClient /\ [][NextQueue]_vars

\* ======================================================= _refresh_artwork
\* one run of IotaCanvas._refresh_artwork, statement by statement, against
\* a marketplace whose artist table is refresh.table (the id of a row is its
\* position) and whose answers are any the client can receive
AverageTimes == {NULL, Some(1), Some(2)}
Surcharges == {0, 100}
ArtistTableRows ==
    [average_time : AverageTimes, surcharge : Surcharges]
ArtistTables ==
    UNION {[1..n -> ArtistTableRows] : n \in 0..MaxArtists}
\* what iota_interface.get_balance() returns
LocalBalances == {50, 5000}
\* art_request['iota_addr'] of the answer to request-art
Addresses == {"ADDR1", "ADDR2"}

\* the JSON body of GET /artist-list: id and cost of every row
artist_list(table) ==
    [i \in 1..Len(table) |->
        [id |-> i,
         cost |-> calc_cost(table[i].average_time, table[i].surcharge)]]

ValueError == [exception |-> "ValueError"]

\* >= for >
NotDearer(best_choice, artist) == best_choice.cost >= artist.cost

\* if best_choice['cost'] > artist['cost']
Dearer(best_choice, artist) == best_choice.cost > artist.cost

\* for artist in artist_list: the loop of choose_artist from position i on
RECURSIVE choose_loop(_, _, _)
choose_loop(best_choice, list, i) ==
    IF i > Len(list)
    THEN best_choice
    ELSE choose_loop(IF Dearer(best_choice, list[i]) THEN list[i]
                     ELSE best_choice,
                     list, i + 1)

\* choose_artist(artist_list); the argument is NULL for None and Some(l) for
\* the list l
choose_artist(al) ==
    IF al = NULL \/ al[1] = <<>>
    THEN ValueError
    ELSE choose_loop(al[1][1], al[1], 1)

\* a test for an empty balance
BalanceEmpty(balance) == balance = 0

\* self.iota_interface.get_balance() < LOW_BALANCE_AMOUNT
BalanceTooLow(balance) == balance < LOW_BALANCE_AMOUNT

\* the request made again after the ERROR event
RetryAfterConnectionError(pc) == pc

\* except requests.exceptions.ConnectionError: put("ERROR", ...); return
AfterConnectionError(pc) == "returned"

\* the first artist of the listing paid instead of the chosen one
PaymentOfFirstListed(rf) ==
    [amount |-> rf.artist_list[1][1].cost,
     address |-> rf.art_request[1].iota_addr]

\* send_iota(artist['cost'], art_request['iota_addr'])
PaymentOf(rf) ==
    [amount |-> rf.artist[1].cost, address |-> rf.art_request[1].iota_addr]

\* the handler of ValueError putting ERROR
PaymentValueErrorAsError == "ERROR"

\* except ValueError: self._event_q.put("LOW_BALANCE")
PaymentValueErrorEvent == "LOW_BALANCE"

\* the loop test without its test of the stop flag
PollAgainIgnoringStop(rf) ==
    rf.status # "completed" /\ rf.elapsed < MAX_CHECK_TIME

\* the loop test without its deadline
PollAgainWithoutDeadline(rf) ==
    /\ rf.status # "completed"
    /\ ~stop_flag

\* while status != 'completed'
\*         and start_check + MAX_CHECK_TIME > datetime.datetime.now()
\*         and not self.stop_flag.is_set()
PollAgain(rf) ==
    /\ rf.status # "completed"
    /\ rf.elapsed < MAX_CHECK_TIME
    /\ ~stop_flag

\* the test after the loop left out
RetrievesAlways(status) == TRUE

\* if status != 'completed': return
RetrievesAfterPolling(status) == status = "completed"

\* the run ends by an exception _refresh_artwork does not catch
Raises(rf, what) == [rf EXCEPT !.pc = "raised", !.failure = what]

\* the run ends in the handler of ConnectionError
ConnectionFailed(rf) ==
    [rf EXCEPT !.pc = AfterConnectionError(rf.pc),
               !.failure = "ConnectionError"]

NoPut == UNCHANGED <<queue, notifier, nput, chist>>

\* the variables no statement of _refresh_artwork touches
RefreshFrame ==
    /\ UNCHANGED <<stop_flag, is_callback, main, is_refreshing, thread>>
    /\ UNCHANGED <<svars, avars, wvars>>

\* lines 264-268: self._last_refresh_attempt = now and the balance check;
\* get_balance asks the node and may raise
RefreshCheckBalance(ok) ==
    /\ refresh.pc = "begin"
    /\ cooldown' = TRUE
    /\ IF ~ok
       THEN refresh' = Raises(refresh, "get_balance") /\ NoPut
       ELSE IF BalanceTooLow(refresh.balance)
            THEN /\ put("LOW_BALANCE")
                 /\ refresh' = [refresh EXCEPT !.pc = "returned"]
            ELSE refresh' = [refresh EXCEPT !.pc = "list"] /\ NoPut
    /\ UNCHANGED settings
    /\ RefreshFrame

\* line 272: requests.get(marketplace + '/artist-list').json(); the answer
\* is the listing, the JSON null, or there is no connection
RefreshListing(answer) ==
    /\ refresh.pc = "list"
    /\ LET rf == [refresh EXCEPT !.steps = Append(@, "list")]
       IN  CASE answer = "ConnectionError" ->
                   put("ERROR") /\ refresh' = ConnectionFailed(rf)
             [] answer = "list" ->
                   /\ refresh' = [rf EXCEPT
                          !.pc = "choose",
                          !.artist_list = Some(artist_list(rf.table))]
                   /\ NoPut
             [] answer = "null" ->
                   /\ refresh' = [rf EXCEPT !.pc = "choose",
                                            !.artist_list = NULL]
                   /\ NoPut
    /\ UNCHANGED <<cooldown, settings>>
    /\ RefreshFrame

\* line 274: artist = self.choose_artist(artist_list); its ValueError is
\* not caught
RefreshChoose ==
    /\ refresh.pc = "choose"
    /\ LET rf == [refresh EXCEPT !.steps = Append(@, "choose")]
           chosen == choose_artist(rf.artist_list)
       IN  refresh' = IF chosen = ValueError
                      THEN Raises(rf, "choose_artist")
                      ELSE [rf EXCEPT !.pc = "request",
                                      !.artist = Some(chosen)]
    /\ NoPut
    /\ UNCHANGED <<cooldown, settings>>
    /\ RefreshFrame

\* lines 276-278: requests.get(.../<id>/request-art).json(): the 202 answer
\* (the server has made the job, whose watcher computes required_balance
\* from the artist's row, artist.py:316-319), an answer that is not JSON
\* (a 500 page), or there is no connection
RefreshRequest(answer, addr) ==
    /\ refresh.pc = "request"
    /\ LET rf == [refresh EXCEPT !.steps = Append(@, "request")]
           row == rf.table[rf.artist[1].id]
       IN  CASE answer = "ConnectionError" ->
                   put("ERROR") /\ refresh' = ConnectionFailed(rf)
             [] answer = "202" ->
                   /\ refresh' = [rf EXCEPT
                          !.pc = "pay",
                          !.art_request = Some([iota_addr |-> addr,
                                                key |-> "key"]),
                          !.required_balance =
                              Some(calc_cost(row.average_time,
                                             row.surcharge))]
                   /\ NoPut
             [] answer = "500" ->
                   refresh' = Raises(rf, "request-art") /\ NoPut
    /\ UNCHANGED <<cooldown, settings>>
    /\ RefreshFrame

\* lines 282-296: send_iota, which sends the transfer, raises ValueError or
\* raises something else; then status = 'unknown' and start_check = now
RefreshPay(result) ==
    /\ refresh.pc = "pay"
    /\ LET rf == [refresh EXCEPT !.steps = Append(@, "pay")]
       IN  CASE result = "sent" ->
                   /\ refresh' = [rf EXCEPT !.pc = "poll_test",
                                            !.paid = Some(PaymentOf(rf)),
                                            !.status = "unknown",
                                            !.elapsed = 0]
                   /\ NoPut
             [] result = "ValueError" ->
                   /\ put(PaymentValueErrorEvent)
                   /\ refresh' = [rf EXCEPT !.pc = "returned",
                                            !.failure = "ValueError"]
             [] result = "Exception" ->
                   refresh' = Raises(rf, "send_iota") /\ NoPut
    /\ UNCHANGED <<cooldown, settings>>
    /\ RefreshFrame

\* lines 297-299: the test of the polling loop
RefreshPollTest ==
    /\ refresh.pc = "poll_test"
    /\ refresh' = [refresh EXCEPT
           !.pc = IF PollAgain(refresh) THEN "wait" ELSE "after"]
    /\ NoPut
    /\ UNCHANGED <<cooldown, settings>>
    /\ RefreshFrame

\* line 300: self.stop_flag.wait(ART_CHECK_INTERVAL) returns after d: the
\* whole interval, or less when the flag is set before or while it waits
RefreshWait(d) ==
    /\ refresh.pc = "wait"
    /\ \/ d = ART_CHECK_INTERVAL /\ ~stop_flag
       \/ d < ART_CHECK_INTERVAL /\ stop_flag
    /\ refresh' = [refresh EXCEPT !.pc = "query", !.elapsed = @ + d]
    /\ NoPut
    /\ UNCHANGED <<cooldown, settings>>
    /\ RefreshFrame

\* lines 302-311: requests.post(status_addr, json={key}).json()['status']:
\* 409 in_progress, 200 completed, an answer that is not JSON (the 404 and
\* 403 pages of abort), or there is no connection
RefreshQuery(answer) ==
    /\ refresh.pc = "query"
    /\ LET rf == [refresh EXCEPT !.steps = Append(@, "poll")]
       IN  CASE answer = "ConnectionError" ->
                   put("ERROR") /\ refresh' = ConnectionFailed(rf)
             [] answer = "409" ->
                   /\ refresh' = [rf EXCEPT !.pc = "poll_test",
                                            !.status = "in_progress"]
                   /\ NoPut
             [] answer = "200" ->
                   /\ refresh' = [rf EXCEPT !.pc = "poll_test",
                                            !.status = "completed"]
                   /\ NoPut
             [] answer = "404" ->
                   refresh' = Raises(rf, "status") /\ NoPut
    /\ UNCHANGED <<cooldown, settings>>
    /\ RefreshFrame

\* lines 312-314: if status != 'completed': return
RefreshAfterPolling ==
    /\ refresh.pc = "after"
    /\ refresh' = [refresh EXCEPT
           !.pc = IF RetrievesAfterPolling(refresh.status) THEN "retrieve"
                  ELSE "returned"]
    /\ NoPut
    /\ UNCHANGED <<cooldown, settings>>
    /\ RefreshFrame

\* lines 316-346: requests.post(retrieve_addr, json={key}).content, then
\* imghdr.what, the file written, setval_and_save and put("ARTWORK_UPDATED");
\* the content is an image, or something imghdr does not know (an error
\* page: '.' + None raises TypeError), or there is no connection
RefreshRetrieve(answer) ==
    /\ refresh.pc = "retrieve"
    /\ LET rf == [refresh EXCEPT !.steps = Append(@, "retrieve")]
       IN  CASE answer = "ConnectionError" ->
                   /\ put("ERROR")
                   /\ refresh' = ConnectionFailed(rf)
                   /\ UNCHANGED settings
             [] answer = "image" ->
                   /\ settings' = [settings EXCEPT
                          !.last_refresh_time = Some("now"),
                          !.current_artwork = Some("new"),
                          !.num_artworks = @ + 1]
                   /\ put("ARTWORK_UPDATED")
                   /\ refresh' = [rf EXCEPT !.pc = "returned"]
             [] answer = "other" ->
                   /\ refresh' = Raises(rf, "retrieve-art")
                   /\ NoPut
                   /\ UNCHANGED settings
    /\ UNCHANGED cooldown
    /\ RefreshFrame

NextRefresh ==
    \/ \E ok \in BOOLEAN : RefreshCheckBalance(ok)
    \/ \E a \in {"ConnectionError", "list", "null"} : RefreshListing(a)
    \/ RefreshChoose
    \/ \E a \in {"ConnectionError", "202", "500"}, addr \in Addresses :
          RefreshRequest(a, addr)
    \/ \E r \in {"sent", "ValueError", "Exception"} : RefreshPay(r)
    \/ RefreshPollTest
    \/ \E d \in 0..ART_CHECK_INTERVAL : RefreshWait(d)
    \/ \E a \in {"ConnectionError", "409", "200", "404"} : RefreshQuery(a)
    \/ RefreshAfterPolling
    \/ \E a \in {"ConnectionError", "image", "other"} : RefreshRetrieve(a)
    \/ DisplayStop
    \/ CherrypyStop

\* _refresh_artwork_caller has called _refresh_artwork: the thread run
\* started before its first get_and_wait_on_event (the flag not converted
\* yet) or in a later turn of its loop
InitRefresh ==
    /\ ServerInit
    /\ stop_flag = FALSE
    /\ is_callback \in BOOLEAN
    /\ queue = <<>>
    /\ notifier = <<>>
    /\ nput = 0
    /\ main = [pc |-> "loop", event |-> NoneEvent]
    /\ is_refreshing = TRUE
    /\ cooldown = FALSE
    /\ settings = [art_refresh_enabled |-> TRUE, last_refresh_time |-> NULL,
                   current_artwork |-> NULL, num_artworks |-> 0]
    /\ thread = [t \in Threads |-> IF t = 1 THEN "flagged" ELSE "unused"]
    /\ chist = [posted |-> FALSE, result |-> "none", noop |-> FALSE]
    /\ refresh \in {[RefreshIdle EXCEPT !.pc = "begin", !.table = t,
                                        !.balance = b]
                    : t \in ArtistTables, b \in LocalBalances}
    /\ artist_table = NoArtists
    /\ wallet = WalletIdle

SpecRefresh == InitRefresh /\ [][NextRefresh]_vars

\* ------------------------------------------------ artist create / update
\* request.form['surcharge'] as the browser posts it: text
FormSurcharges == {"", "0", "100", "-2000"}

\* the value the artist row holds for a posted surcharge: 0 for an empty
\* field ('if not surcharge: surcharge = 0'), and for any other text the
\* number it spells, which calc_cost adds to the time cost
SurchargeStored(form) ==
    CASE form = "" -> 0
      [] form = "0" -> 0
      [] form = "100" -> 100
      [] form = "-2000" -> -2000

ArtistFrame == UNCHANGED <<svars, cvars, rvars, wvars>>

\* create, POST with a name and a code file: INSERT INTO artist (ai_name,
\* genre_id, author_id, code, surcharge); average_time is not given
ArtistCreate(form) ==
    /\ Len(artist_table.rows) < MaxArtists
    /\ artist_table' = [artist_table EXCEPT
           !.rows = Append(@, [average_time |-> NULL,
                               surcharge |-> SurchargeStored(form)])]
    /\ ArtistFrame

\* update, POST by the author: UPDATE artist SET ai_name, genre_id,
\* surcharge WHERE id = aiid
ArtistUpdate(aiid, form) ==
    /\ aiid \in 1..Len(artist_table.rows)
    /\ artist_table' = [artist_table EXCEPT
           !.rows[aiid].surcharge = SurchargeStored(form)]
    /\ ArtistFrame

\* GET /artist-list
ArtistList ==
    /\ artist_table' = [artist_table EXCEPT
           !.listing = Some(artist_list(artist_table.rows))]
    /\ ArtistFrame

NextArtist ==
    \/ \E form \in FormSurcharges : ArtistCreate(form)
    \/ \E aiid \in 1..MaxArtists, form \in FormSurcharges :
          ArtistUpdate(aiid, form)
    \/ ArtistList

SpecArtist == InitClient /\ [][NextArtist]_vars

\* ------------------------------------------------- client IotaUtil
WalletFrame == UNCHANGED <<svars, cvars, rvars, avars>>

\* a call of send_iota is in progress for caller c
Sending(c) == wallet.call[c].pc # "idle"

\* send_iota by caller c (a refresh thread), up to the read of the index in
\* generate_address: with self._thread_lock: index = get(addr_index)
GenerateAddressRead(c) ==
    /\ wallet.call[c].pc = "idle"
    /\ wallet.sends < MaxSends
    /\ wallet.lock = 0
    /\ wallet' = [wallet EXCEPT
           !.lock = c,
           !.sends = @ + 1,
           !.call = [d \in Callers |->
                IF d = c
                THEN [pc |-> "ga_derive", index |-> wallet.addr_index,
                      stop_index |-> 0, result |-> "none",
                      alone |-> \A e \in Callers : ~Sending(e),
                      before |-> wallet.addr_index, after |-> 0,
                      receive_before |-> wallet.receive_address]
                ELSE IF Sending(d)
                     THEN [wallet.call[d] EXCEPT !.alone = FALSE]
                     ELSE wallet.call[d]]]
    /\ WalletFrame

\* the rest of generate_address: get_new_addresses(index=index), which may
\* raise, then setval_and_save(addr_index: index + 1) and the lock released
GenerateAddressSave(c, ok) ==
    /\ wallet.call[c].pc = "ga_derive"
    /\ LET index == wallet.call[c].index
       IN  wallet' =
             IF ok
             THEN [wallet EXCEPT
                     !.addr_index = index + 1,
                     !.holders[index] = @ + 1,
                     !.lock = 0,
                     !.call[c].pc = "stop_index"]
             ELSE [wallet EXCEPT
                     !.lock = 0,
                     !.call[c].pc = "idle",
                     !.call[c].result = "no_address",
                     !.call[c].after = wallet.addr_index]
    /\ WalletFrame

\* stop_index = self.user_settings.get(['iota', 'addr_index'])
SendIotaStopIndex(c) ==
    /\ wallet.call[c].pc = "stop_index"
    /\ wallet' = [wallet EXCEPT
           !.call[c].stop_index = wallet.addr_index,
           !.call[c].pc = "inputs"]
    /\ WalletFrame

\* inputs = self.iotaapi.get_inputs(stop=stop_index), which may raise
\* (a balance too low, no node)
SendIotaInputs(c, ok) ==
    /\ wallet.call[c].pc = "inputs"
    /\ wallet' = [wallet EXCEPT
           !.call[c].pc = IF ok THEN "transfer" ELSE "rollback"]
    /\ WalletFrame

\* with self._thread_lock: prepare_transfer and send_trytes, either of
\* which may raise, then setval_and_save(receive_address: change_address)
SendIotaTransfer(c, ok) ==
    /\ wallet.call[c].pc = "transfer"
    /\ wallet.lock = 0
    /\ wallet' =
          IF ok
          THEN [wallet EXCEPT
                  !.receive_address = wallet.call[c].index,
                  !.call[c].pc = "idle",
                  !.call[c].result = "sent",
                  !.call[c].after = wallet.addr_index]
          ELSE [wallet EXCEPT !.call[c].pc = "rollback"]
    /\ WalletFrame

\* the index a failed call writes back with one subtracted from stop_index
RolledBackIndex(call) == call.stop_index - 1

\* except Exception: setval_and_save(addr_index: stop_index - 1); raise
SendIotaRollback(c) ==
    /\ wallet.call[c].pc = "rollback"
    /\ wallet' = [wallet EXCEPT
           !.addr_index = RolledBackIndex(wallet.call[c]),
           !.holders[wallet.call[c].index] = @ - 1,
           !.call[c].pc = "idle",
           !.call[c].result = "raised",
           !.call[c].after = RolledBackIndex(wallet.call[c])]
    /\ WalletFrame

NextWallet ==
    \/ \E c \in Callers : GenerateAddressRead(c)
    \/ \E c \in Callers, ok \in BOOLEAN : GenerateAddressSave(c, ok)
    \/ \E c \in Callers : SendIotaStopIndex(c)
    \/ \E c \in Callers, ok \in BOOLEAN : SendIotaInputs(c, ok)
    \/ \E c \in Callers, ok \in BOOLEAN : SendIotaTransfer(c, ok)
    \/ \E c \in Callers : SendIotaRollback(c)

SpecWallet == InitClient /\ [][NextWallet]_vars

\* ================================================================ claims
Created(j) == j < nextJobId
Pending(j) == job[j].present /\ job[j].completed = NULL
Completed(j) == job[j].present /\ job[j].completed # NULL
Deleted(j) == Created(j) /\ ~job[j].present
Ended(w) == w.pc \in {"done", "crashed"}
\* generate_address has returned (address, addr_index) to request r
Returned(r) == req[r].pc \in {"insert", "responded"}
Keys == {uuid4(r) : r \in Reqs} \cup {0}

\* C3: no two calls of generate_address, on their own connections, return
\* the same addr_index (nor read the same one, whether or not the address
\* derivation that follows succeeds)
C3_DistinctIndices ==
    \A r, q \in Reqs :
        /\ r # q
        /\ req[r].pc \in {"ga_commit", "ga_derive", "insert", "responded",
                          "failed"}
        /\ req[q].pc \in {"ga_commit", "ga_derive", "insert", "responded",
                          "failed"}
        => req[r].addr_index # req[q].addr_index

\* C3 witness: the second call has returned its index while the first call,
\* begun before it, is still inside generate_address
C3_Witness ==
    /\ req[1].pc = "ga_derive"
    /\ Returned(2)
    /\ req[2].addr_index = 1

\* C4: no two rows of the job table carry the same addr_index
C4_JobIndexUnique ==
    \A j, k \in JobIds :
        j # k /\ job[j].present /\ job[k].present
        => job[j].addr_index # job[k].addr_index

\* C4 witness: two rows, one completed and one pending, made by requests
\* that were inside request_art together
C4_Witness ==
    /\ Completed(1)
    /\ Pending(2)
    /\ req[1].job_id = 2
    /\ req[2].job_id = 1

\* C5: every row has completed and filename both unset or both set, and
\* get_job answers 404, 403 or such a row
C5_ThreeStates ==
    /\ \A j \in JobIds :
          job[j].present =>
              (job[j].completed = NULL <=> job[j].filename = NULL)
    /\ \A j \in JobIds, key \in Keys :
          LET a == get_job(j, key)
          IN  \/ a.code \in {403, 404}
              \/ a.code = 200 /\ a.completed = NULL /\ a.filename = NULL
              \/ a.code = 200 /\ a.completed # NULL /\ a.filename # NULL

\* C5 witness: get_job with the right key reads a finalized row
C5_Witness ==
    \E j \in JobIds :
        /\ Completed(j)
        /\ get_job(j, job[j].access_key).code = 200
        /\ get_job(j, job[j].access_key).filename = Some("art.png")

\* C6: a job has a watcher from its creation on and no other; a step that
\* changes an existing row is the one write of that job's watcher, made on
\* a pending row; a completed row never changes again and a deleted job
\* never comes back; a watcher that ran to its end made exactly one write
C6_MutatedOnce ==
    [][\A j \in JobIds :
          /\ Created(j) <=> watcher[j].pc # "none"
          /\ hist[j].writes <= 1
          /\ watcher[j].pc = "done" => hist[j].writes = 1 /\ hist[j].writer = j
          /\ (Created(j) /\ job'[j] # job[j]) =>
                /\ Pending(j)
                /\ watcher[j].pc \in {"decide", "finalize"}
                /\ watcher'[j].pc = "done"
                /\ hist[j].writes = 0
          /\ Completed(j) => job'[j] = job[j]
          /\ Deleted(j) => ~job'[j].present]_vars

\* C6 witness: one job has been finalized and another deleted
C6_Witness ==
    /\ Completed(1) /\ watcher[1].pc = "done"
    /\ Deleted(2) /\ watcher[2].pc = "done"

\* C7: a job is deleted no earlier than WAIT_PAYMENT and no later than
\* WAIT_PAYMENT + BALANCE_CHECK_INTERVAL after its watcher's start_time, and
\* no watcher is still in its polling loop after that time
C7_DeletionWindow ==
    \A j \in JobIds :
        /\ hist[j].deleted_at # -1 =>
              /\ hist[j].deleted_at >= WAIT_PAYMENT
              /\ hist[j].deleted_at <= WAIT_PAYMENT + BALANCE_CHECK_INTERVAL
        /\ watcher[j].pc \in {"sleep", "decide"} =>
              watcher[j].elapsed <= WAIT_PAYMENT + BALANCE_CHECK_INTERVAL

\* C7 witness: a job whose address never held the required balance was
\* deleted after the deadline, at the first poll that followed it
C7_Witness ==
    \E j \in JobIds :
        /\ Deleted(j)
        /\ ledger[watcher[j].addr_index] < watcher[j].required_balance
        /\ hist[j].deleted_at > WAIT_PAYMENT

\* C8: the artist runs at most once per job and only with
\* balance >= required_balance; a finalized row carries the file name the
\* artist returned; a deleted job had balance < required_balance and its
\* artist never ran
C8_PaidThenRun ==
    \A j \in JobIds :
        /\ hist[j].plugin_runs <= 1
        /\ hist[j].plugin_runs = 1 =>
              /\ hist[j].paid_at_run
              /\ watcher[j].balance >= watcher[j].required_balance
        /\ watcher[j].pc \in {"generate", "finalize"} =>
              watcher[j].balance >= watcher[j].required_balance
        /\ watcher[j].pc = "finalize" =>
              hist[j].plugin_runs = 1 /\ watcher[j].filename # NULL
        /\ Completed(j) =>
              /\ hist[j].plugin_runs = 1
              /\ job[j].filename = watcher[j].filename
              /\ job[j].filename # NULL
        /\ Deleted(j) =>
              /\ hist[j].plugin_runs = 0
              /\ watcher[j].balance < watcher[j].required_balance

\* C8 witness: one job was paid in full and finalized, another was paid in
\* part only and deleted
C8_Witness ==
    \E j, k \in JobIds :
        /\ Completed(j) /\ hist[j].plugin_runs = 1
        /\ Deleted(k) /\ watcher[k].balance = 500

\* C9: a watcher never ends with its job still pending: every job is
\* finalized or deleted by its watcher
C9_WatcherEndsPaidOrTimedOut ==
    \A j \in JobIds : Ended(watcher[j]) => ~Pending(j)

\* C10: a failed balance query does not end the polling: the watcher of a
\* job whose query failed is never dead with the job still pending
C10_FailedQueryKeepsPolling ==
    \A j \in JobIds :
        hist[j].query_failed => ~(Ended(watcher[j]) /\ Pending(j))

\* ------------------------------------------------ job queries (C11 - C17)
\* the job ids a caller may name: those of the table and one never issued
QueryIds == JobIds \cup {MaxJobs + 1}
\* a job with that id exists
Exists(j) == j \in JobIds /\ job[j].present
\* key is the access_key of the existing job j
KeyMatches(j, key) == Exists(j) /\ key = job[j].access_key
\* the access key request_art answered for job j
KeyOf(j) == uuid4(CHOOSE r \in Reqs : req[r].job_id = j)
\* job j was requested for an artist of the artist table
ArtistKnown(j) ==
    \E r \in Reqs : req[r].job_id = j /\ req[r].aiid \in DOMAIN ArtistRows

\* C11: get_job answers 404 for a job never created or deleted, 403 for an
\* existing job and any other key (no job field in the answer), and the
\* row's completed and filename on the exact key only
C11_GetJobContract ==
    \A j \in QueryIds :
        IF j \notin JobIds \/ ~Created(j) \/ Deleted(j)
        THEN \A key \in Keys : get_job(j, key) = [code |-> 404]
        ELSE \A key \in Keys :
                IF key # job[j].access_key
                THEN get_job(j, key) = [code |-> 403]
                ELSE get_job(j, key)
                         = [code |-> 200, completed |-> job[j].completed,
                            filename |-> job[j].filename]

\* C11 witness: one job exists and is read with its key and refused with
\* the key of the other job, which has been deleted and answers 404
C11_Witness ==
    \E j, k \in JobIds :
        /\ j # k
        /\ Exists(j) /\ Deleted(k)
        /\ get_job(j, KeyOf(j)).code = 200
        /\ get_job(j, KeyOf(k)).code = 403
        /\ get_job(k, KeyOf(k)).code = 404

\* C12: a wrong key gets the same answer from get_job, status and
\* retrieve-art before and after a step that changes the job table only by
\* removing job j
C12_WrongKeyHidesExistence ==
    [][\A j \in JobIds, key \in Keys :
          (/\ Exists(j)
           /\ ~KeyMatches(j, key)
           /\ job' = [job EXCEPT ![j] = NoRow])
          => /\ get_job(j, key)' = get_job(j, key)
             /\ retrieve_status(j, key)' = retrieve_status(j, key)
             /\ retrieve_art(j, key)' = retrieve_art(j, key)]_vars

\* C13: the status endpoint answers 200 'completed' exactly for an existing
\* job, its key and a finalized row; 409 exactly for an existing job, its
\* key and a pending row; 403 exactly for an existing job and another key;
\* 404 exactly for an id never issued or a deleted job
C13_StatusCodes ==
    \A j \in QueryIds :
        IF j \notin JobIds \/ ~Created(j) \/ Deleted(j)
        THEN \A key \in Keys : retrieve_status(j, key).code = 404
        ELSE \A key \in Keys :
                IF key # job[j].access_key
                THEN retrieve_status(j, key).code = 403
                ELSE IF watcher[j].pc = "done" /\ hist[j].writes = 1
                     THEN retrieve_status(j, key)
                              = [code |-> 200, status |-> "completed"]
                     ELSE /\ Pending(j)
                          /\ retrieve_status(j, key).code = 409

\* C13 witness: a finalized job answers 200 completed while the other job,
\* still awaiting payment, answers 409
C13_Witness ==
    \E j, k \in JobIds :
        /\ retrieve_status(j, KeyOf(j)) = [code |-> 200, status |-> "completed"]
        /\ watcher[k].pc = "sleep"
        /\ retrieve_status(k, KeyOf(k)).code = 409

\* C14: retrieve-art serves a file only with the job's key and after the
\* watcher's finalize has committed, and the file is the one the artist
\* returned; a pending job answers 409 with its key, wherever its watcher is
C14_RetrieveAfterFinalize ==
    \A j \in QueryIds :
        IF ~Exists(j)
        THEN \A key \in Keys : retrieve_art(j, key).code # 200
        ELSE \A key \in Keys :
                IF key # job[j].access_key
                THEN retrieve_art(j, key).code # 200
                ELSE IF watcher[j].pc = "done" /\ hist[j].writes = 1
                     THEN /\ watcher[j].filename # NULL
                          /\ retrieve_art(j, key)
                                 = [code |-> 200, file |-> watcher[j].filename]
                     ELSE /\ Pending(j)
                          /\ retrieve_art(j, key) = [code |-> 409]

\* C14 witness: the artist of one job has returned its file and the
\* finalize is still to come, so retrieve-art answers 409, while the other
\* job, finalized, is served
C14_Witness ==
    \E j, k \in JobIds :
        /\ watcher[j].pc = "finalize"
        /\ retrieve_art(j, KeyOf(j)).code = 409
        /\ retrieve_art(k, KeyOf(k)) = [code |-> 200, file |-> Some("art.png")]

\* C15: a request for an artist id with no row in the artist table consumes
\* no address index, creates no job row and starts no watcher
C15_UnknownArtistRejected ==
    /\ \A r \in Reqs :
          req[r].pc # "idle" => req[r].aiid \in DOMAIN ArtistRows
    /\ \A j \in JobIds :
          job[j].present => job[j].ai_id \in DOMAIN ArtistRows
    /\ \A j \in JobIds :
          watcher[j].pc # "none" => ArtistKnown(j)

\* C16: the watcher of a job of a known artist whose address holds the cost,
\* paid while the deadline of the job had not passed on the watcher's clock,
\* and whose artist did not fail, does not end with the job unfinalized
C16_PaidJobFinalized ==
    \A j \in JobIds :
        (/\ ArtistKnown(j)
         /\ Ended(watcher[j])
         /\ ledger[watcher[j].addr_index] >= watcher[j].required_balance
         /\ watcher[j].elapsed < WAIT_PAYMENT
         /\ watcher[j].filename # NULL \/ hist[j].plugin_runs = 0)
        => Completed(j)

\* C17: once the watcher of a job of a known artist to whose address
\* nothing was paid has ended, status answers 404 for that job and any key
C17_UnpaidJobGone ==
    \A j \in JobIds, key \in Keys :
        (/\ ArtistKnown(j)
         /\ Ended(watcher[j])
         /\ ledger[watcher[j].addr_index] = 0)
        => retrieve_status(j, key).code = 404

\* a refresh thread is running _refresh_artwork
InFlight(t) == thread[t] = "refreshing"

\* C1: at most one run of _refresh_artwork is in flight
C1_OneRefreshInFlight ==
    Cardinality({t \in Threads : InFlight(t)}) <= 1

\* C18: a turn of the loop that holds a REFRESH_ARTWORK event it has already
\* passed over because a refresh was in flight, the wait since having timed
\* out, starts no refresh thread unless is_refresh_time() asks for one
C18_RequestInFlightIsNoop ==
    [][(/\ main.pc = "loop"
        /\ chist.noop
        /\ chist.result = "timeout"
        /\ ~is_refresh_time(TRUE))
       => \A t \in Threads : thread[t] = "unused" => thread'[t] = "unused"]_vars

\* C19: the item get_and_wait_on_event returns has the smallest priority of
\* the items of the priority queue (every put of the program has the
\* default priority) and is no longer in the priority queue
C19_DequeuesSmallestAndRemoves ==
    (main.pc = "loop" /\ chist.result = "item" /\ main.event # TrueValue)
    => /\ \A i \in 1..Len(queue) : queue[i].priority >= DefaultPriority
       /\ \A i \in 1..Len(queue) : queue[i].data # main.event

\* C20: the item a get returns is the one enqueued first among the items
\* of its priority that were in the queue
C20_StableDequeue ==
    [][Len(queue') < Len(queue) =>
          LET got == CHOOSE i \in 1..Len(queue) : queue[i].data = main'.event
          IN  \A i \in 1..Len(queue) :
                 queue[i].priority = queue[got].priority
                 => queue[got].data.n <= queue[i].data.n]_vars

\* C2: a get_and_wait_on_event call during which, after its event.is_set()
\* check, an item was put or the stop flag was set through its callback
\* does not end by its timeout
C2_NoLostWakeup ==
    chist.result = "timeout" => ~chist.posted

\* C21: every raising of the stop signal, whichever component raises it
\* (the display, main, the web server's 'stop' subscription, run), posts to
\* the notifier, so that a loop blocked in get_and_wait_on_event is woken
C21_EveryStopPosts ==
    [][(~stop_flag /\ stop_flag' /\ main.pc = "gw_block")
          => Len(notifier') > Len(notifier)]_vars

\* the names of the events on the queue
EventsPut == [i \in 1..Len(queue) |-> queue[i].data.name]

\* the run of _refresh_artwork made step h
Did(h) == \E i \in 1..Len(refresh.steps) : refresh.steps[i] = h

SettingsUntouched ==
    /\ settings.last_refresh_time = NULL
    /\ settings.current_artwork = NULL
    /\ settings.num_artworks = 0

\* C22: when get_balance answers less than LOW_BALANCE_AMOUNT at the start
\* of a refresh, the refresh puts exactly one LOW_BALANCE event and returns:
\* no marketplace request, no job requested, no payment
C22_LowBalanceStops ==
    (/\ refresh.balance < LOW_BALANCE_AMOUNT
     /\ refresh.pc # "begin"
     /\ refresh.failure # "get_balance")
    => /\ refresh.pc = "returned"
       /\ EventsPut = <<"LOW_BALANCE">>
       /\ nput = 1
       /\ refresh.steps = <<>>
       /\ refresh.art_request = NULL
       /\ refresh.paid = NULL

C22_Witness ==
    /\ refresh.balance < LOW_BALANCE_AMOUNT
    /\ refresh.pc = "returned"
    /\ EventsPut = <<"LOW_BALANCE">>

\* C23: choose_artist returns an artist of the listing whose cost is the
\* least, the one of smallest index among those of least cost, and raises
\* ValueError for an empty listing and for None
C23_ChoosesCheapestFirst ==
    /\ refresh.artist # NULL =>
          LET l == refresh.artist_list[1]
              a == refresh.artist[1]
          IN  /\ a.id \in 1..Len(l)
              /\ l[a.id] = a
              /\ \A i \in 1..Len(l) :
                    /\ a.cost <= l[i].cost
                    /\ l[i].cost = a.cost => a.id <= i
    /\ Did("choose") =>
          (refresh.failure = "choose_artist"
             <=> (refresh.artist_list = NULL
                    \/ refresh.artist_list[1] = <<>>))
    /\ refresh.failure = "choose_artist" =>
          refresh.pc = "raised" /\ refresh.artist = NULL

\* an artist chosen among two of the same least cost
C23_Witness ==
    /\ refresh.artist # NULL
    /\ Len(refresh.artist_list[1]) = 2
    /\ refresh.artist_list[1][1].cost = refresh.artist_list[1][2].cost
    /\ refresh.artist[1].id = 1

\* C24: a ConnectionError of any marketplace request (listing, request,
\* status query, retrieval) is not retried: the run puts exactly one ERROR
\* event, makes no later step and returns
C24_ConnectionErrorEndsRun ==
    refresh.failure = "ConnectionError"
    => /\ refresh.pc = "returned"
       /\ EventsPut = <<"ERROR">>
       /\ nput = 1
       /\ refresh.steps[Len(refresh.steps)]
             \in {"list", "request", "poll", "retrieve"}
       /\ \A h \in {"list", "request", "retrieve"} :
             Cardinality({i \in 1..Len(refresh.steps) :
                             refresh.steps[i] = h}) <= 1
       /\ SettingsUntouched

\* the second status query of a run had no connection
C24_Witness ==
    /\ refresh.failure = "ConnectionError"
    /\ refresh.steps = <<"list", "choose", "request", "pay", "poll", "poll">>
    /\ EventsPut = <<"ERROR">>

\* C25: a run one step of which fails otherwise than by a low balance, a
\* timeout or the stop flag (an empty listing, a NotFound answer to the
\* status query, a failed retrieval) makes no later step and puts exactly
\* one ERROR event
C25_OtherFailureOneError ==
    refresh.failure \in {"choose_artist", "request-art", "status",
                         "retrieve-art"}
    => /\ refresh.pc \in {"raised", "returned"}
       /\ EventsPut = <<"ERROR">>

\* C26: a ValueError of send_iota makes the run put exactly one LOW_BALANCE
\* event and no ERROR event, and return without a status query and without
\* a retrieval
C26_PaymentValueErrorIsLowBalance ==
    refresh.failure = "ValueError"
    => /\ refresh.pc = "returned"
       /\ EventsPut = <<"LOW_BALANCE">>
       /\ nput = 1
       /\ refresh.paid = NULL
       /\ ~Did("poll")
       /\ ~Did("retrieve")

C26_Witness ==
    /\ refresh.failure = "ValueError"
    /\ refresh.pc = "returned"
    /\ refresh.steps = <<"list", "choose", "request", "pay">>

\* the place of a step in the order of a refresh
StepRank(h) ==
    CASE h = "list" -> 1
      [] h = "choose" -> 2
      [] h = "request" -> 3
      [] h = "pay" -> 4
      [] h = "poll" -> 5
      [] h = "retrieve" -> 6

\* C27: the steps of a refresh are made in the order listing, selection,
\* request, payment, status queries, retrieval; the payment follows the
\* answer to the request, goes to the address of that answer and is of the
\* listed cost of the artist selected; no status query precedes the
\* payment and no retrieval precedes a "completed" answer
C27_StepOrder ==
    /\ refresh.steps # <<>> => refresh.steps[1] = "list"
    /\ \A i \in 1..(Len(refresh.steps) - 1) :
          \/ StepRank(refresh.steps[i + 1]) = StepRank(refresh.steps[i]) + 1
          \/ refresh.steps[i] = "poll" /\ refresh.steps[i + 1] = "poll"
    /\ refresh.paid # NULL =>
          /\ refresh.art_request # NULL
          /\ refresh.paid[1].address = refresh.art_request[1].iota_addr
          /\ refresh.paid[1].amount
                = refresh.artist_list[1][refresh.artist[1].id].cost
    /\ Did("poll") => refresh.paid # NULL
    /\ Did("retrieve") => refresh.status = "completed"

\* a whole refresh that chose the second artist listed
C27_Witness ==
    /\ Did("retrieve")
    /\ refresh.pc = "returned"
    /\ EventsPut = <<"ARTWORK_UPDATED">>
    /\ refresh.artist[1].id = 2
    /\ refresh.paid[1].address = "ADDR2"

\* the loop of status queries is over
PollingOver(rf) ==
    \/ rf.status = "completed"
    \/ rf.elapsed >= MAX_CHECK_TIME
    \/ stop_flag

C29_TimeoutIsSilent ==
    (/\ refresh.elapsed >= MAX_CHECK_TIME
     /\ refresh.status # "completed"
     /\ refresh.failure = "none"
     /\ refresh.pc \notin {"poll_test", "query", "after"})
    => /\ refresh.pc = "returned"
       /\ queue = <<>>
       /\ nput = 0
       /\ ~Did("retrieve")
       /\ SettingsUntouched

C29_Witness ==
    /\ refresh.pc = "returned"
    /\ refresh.elapsed >= MAX_CHECK_TIME
    /\ refresh.status = "in_progress"
    /\ refresh.failure = "none"
    /\ ~stop_flag
    /\ queue = <<>>

\* C30: calc_cost is surcharge + DEFAULT_COST for an average_time of None
\* and surcharge + average_time * TIME_COST otherwise, for every row of the
\* artist table, and the cost listed for an artist and the balance the
\* watcher of its job requires are both that value
C30_CostFormula ==
    /\ refresh.artist_list # NULL =>
          \A i \in 1..Len(refresh.table) :
             LET row == refresh.table[i]
             IN  refresh.artist_list[1][i].cost
                    = IF row.average_time = NULL
                      THEN row.surcharge + DEFAULT_COST
                      ELSE row.surcharge + row.average_time[1] * TIME_COST
    /\ refresh.required_balance # NULL =>
          refresh.required_balance[1] = refresh.artist[1].cost

\* a job requested of an artist that has an average time and a surcharge
C30_Witness ==
    /\ refresh.required_balance # NULL
    /\ refresh.table[refresh.artist[1].id].average_time # NULL
    /\ refresh.table[refresh.artist[1].id].surcharge > 0
    /\ \E i \in 1..Len(refresh.table) : refresh.table[i].average_time = NULL

\* C31: the cost calc_cost gives for an artist stored through create or
\* update is a non-negative integer, the same at every evaluation, and
\* calc_cost(None, 0) is DEFAULT_COST
C31_CostNonNegative ==
    /\ calc_cost(NULL, 0) = DEFAULT_COST
    /\ artist_table.listing # NULL =>
          \A i \in 1..Len(artist_table.listing[1]) :
             artist_table.listing[1][i].cost \in Nat
    /\ \A i \in 1..Len(artist_table.rows) :
          calc_cost(artist_table.rows[i].average_time,
                    artist_table.rows[i].surcharge) \in Nat

\* the calls of generate_address that have fetched their index
Allocated == {r \in Reqs : req[r].pc \notin {"idle", "ga_select"}}

\* the calls of generate_address that have committed the counter
Committed == {r \in Reqs : req[r].pc \in {"ga_derive", "insert", "failed",
                                          "responded"}}

\* C32: each call of generate_address advances the counter by one and
\* returns the value the counter had before it, so the indices returned
\* are 0, 1, ... with no gap; a call whose derivation fails after the
\* commit leaves its index without a job row and without a watcher, holds
\* no lock, and later calls still get the next index
C32_IndicesWithoutGaps ==
    /\ {req[r].addr_index : r \in Allocated}
          = 0..(Cardinality(Allocated) - 1)
    /\ iota_addr_index = Cardinality(Committed)
    /\ \A r \in Reqs :
          req[r].pc = "failed" =>
             /\ dbWriter # r
             /\ req[r].job_id = 0
             /\ \A j \in JobIds :
                   job[j].present => job[j].addr_index # req[r].addr_index
    /\ Cardinality({j \in JobIds : watcher[j].pc # "none"})
          = Cardinality({r \in Reqs : req[r].pc = "responded"})
    /\ nextJobId - 1 = Cardinality({r \in Reqs : req[r].pc = "responded"})

\* the first derivation failed, index 0 is orphaned, and the second request
\* has its job at index 1
C32_Witness ==
    /\ req[1].pc = "failed"
    /\ req[2].pc = "responded"
    /\ job[req[2].job_id].present
    /\ job[req[2].job_id].addr_index = 1
    /\ iota_addr_index = 2

\* what is left of the polling part of a run, by position
PollingRank(pc) ==
    CASE pc = "wait" -> 5
      [] pc = "query" -> 4
      [] pc = "poll_test" -> 3
      [] pc = "after" -> 2
      [] pc = "retrieve" -> 1
      [] OTHER -> 0

\* C33: the stop flag is tested at the top of every polling iteration: with
\* the flag set, the loop test ends the loop, so a run begins no new
\* iteration (no further wait and status query after the one in progress)
\* and each of its steps brings it nearer its end
C33_StopEndsPolling ==
    [][(/\ stop_flag
        /\ refresh' # refresh
        /\ refresh.pc \in {"poll_test", "wait", "query", "after", "retrieve"})
       => /\ PollingRank(refresh'.pc) < PollingRank(refresh.pc)
          /\ refresh.pc = "poll_test" => refresh'.pc = "after"]_vars

\* a run ended by the stop flag, before MAX_CHECK_TIME and uncompleted
C33_Witness ==
    /\ stop_flag
    /\ refresh.pc = "returned"
    /\ refresh.paid # NULL
    /\ refresh.failure = "none"
    /\ refresh.status # "completed"
    /\ refresh.elapsed < MAX_CHECK_TIME

\* C34: the database has a writer only while a request is between the
\* UPDATE and the commit of generate_address: a watcher asleep between two
\* balance polls has run no writing statement and holds no lock, and a
\* request deriving its address has committed, so neither keeps another
\* request from its UPDATE or its INSERT
C34_NoLockWhileWaiting ==
    /\ dbWriter # NoConn => req[dbWriter].pc \in {"ga_select", "ga_commit"}
    /\ \A r \in Reqs :
          req[r].pc \in {"ga_derive", "insert", "failed"} =>
             /\ dbWriter # r
             /\ iota_addr_index > req[r].addr_index
    /\ \A j \in JobIds :
          watcher[j].pc = "sleep" => hist[j].writes = 0

\* a request holds the write lock of its UPDATE while the watcher of an
\* earlier job sleeps
C34_Witness ==
    /\ watcher[1].pc = "sleep"
    /\ dbWriter = 2
    /\ req[2].pc = "ga_commit"

\* the watcher of job j is past the branch that follows its polling loop
Decided(j) ==
    \/ watcher[j].pc \in {"generate", "finalize", "done"}
    \/ watcher[j].pc = "crashed" /\ hist[j].plugin_runs = 1

\* C38: the watcher decides from the balance of its last poll and not from
\* the clock: past its decision, the job is deleted exactly when that
\* balance is below the required cost, so a job paid by the last poll goes
\* on to the artist also when the deadline had passed at that poll
C38_DecidesByBalance ==
    \A j \in JobIds :
        Decided(j) =>
           IF watcher[j].balance < watcher[j].required_balance
           THEN ~job[j].present /\ hist[j].deleted_at # -1
           ELSE job[j].present /\ hist[j].deleted_at = -1

\* a job paid between the deadline and the poll that followed it, finalized
C38_Witness ==
    \E j \in JobIds :
        /\ Completed(j)
        /\ watcher[j].elapsed >= WAIT_PAYMENT
        /\ watcher[j].balance >= watcher[j].required_balance

\* C35: no event is lost between waits: an event put while the loop is not
\* blocked in get_and_wait_on_event leaves the notifier only as the value a
\* call of get_and_wait_on_event returns
C35_NoEventLostBetweenWaits ==
    [][\A i \in 1..Len(notifier) :
          notifier[i] # TrueValue =>
             \/ \E k \in 1..Len(notifier') : notifier'[k] = notifier[i]
             \/ main'.event = notifier[i] /\ main'.pc = "loop"]_vars

\* C36: the settings are saved before ARTWORK_UPDATED is put, so when the
\* loop handles an ARTWORK_UPDATED event the current_artwork it reads is the
\* file stored by the refresh that put the event
C36_ShowsArtworkOfEvent ==
    (/\ main.pc = "loop"
     /\ ~stop_flag
     /\ main.event.name = "ARTWORK_UPDATED")
    => settings.current_artwork = Some(main.event.n)

\* C37: an event is acted on at most once: a turn of the loop that follows
\* a wait ended by its timeout, and so holds no new event, makes no display
\* action and starts no refresh for the event it still holds
C37_EventActedOnOnce ==
    [][(/\ main.pc = "loop"
        /\ main'.pc = "gw_is_set"
        /\ chist.result = "timeout")
       => /\ main.event.name \notin {"ARTWORK_UPDATED", "LOW_BALANCE"}
          /\ (main.event.name = "REFRESH_ARTWORK" /\ ~is_refresh_time(TRUE))
                => thread' = thread]_vars

\* C39: whenever no refresh thread is running, _is_refreshing is False, also
\* after a thread that an exception of _refresh_artwork ended
C39_FlagReleased ==
    (\A t \in Threads : thread[t] \in {"unused", "finished", "died"})
    => ~is_refreshing

\* a refresh thread ended by an exception, and none running
C39_Witness ==
    /\ \E t \in Threads : thread[t] = "died"
    /\ \A t \in Threads : thread[t] \in {"unused", "finished", "died"}
    /\ ~is_refreshing

\* C40: a send_iota that fails after its change address was generated
\* leaves addr_index and receive_address as they were before the call, one
\* that succeeds leaves addr_index one higher and receive_address the
\* change address, and generate_address hands no index out twice: no index
\* is held by two calls that did not roll it back, also with calls of
\* send_iota running at the same time
C40_IndexRestoredNeverReissued ==
    /\ \A i \in DOMAIN wallet.holders : wallet.holders[i] <= 1
    /\ \A c \in Callers :
          LET call == wallet.call[c]
          IN  (call.pc = "idle" /\ call.alone) =>
                 /\ call.result = "raised" => call.after = call.before
                 /\ call.result = "sent" => call.after = call.before + 1
    /\ \A c \in Callers :
          LET call == wallet.call[c]
          IN  (/\ call.alone
               /\ call.pc # "idle"
               /\ \A d \in Callers \ {c} : ~Sending(d))
              => wallet.receive_address = call.receive_before

====
